---- MODULE Spec2Model ----
(***************************************************************************)
(* A model of the DocuBot document-chat pipeline:                          *)
(*   src/src/services/pdfService.ts   validatePDFFile, extractTextFromPDF, *)
(*                                    processPDFFile, cleanupPDFResources  *)
(*   src/src/services/groqService.ts  chatWithContext                      *)
(*   src/src/components/Chat.tsx      the Chat component's state and its   *)
(*                                    handlers                             *)
(*                                                                         *)
(* Strings.  A JavaScript string is modelled as a sequence of pieces.  A   *)
(* piece is the first `len` characters of a text of `full` characters      *)
(* that is either a literal (kind "lit", s is the text itself) or the      *)
(* opaque text of one PDF page (kind "page", s names the file and page).   *)
(* Typed characters are one-character literals.  Concatenation is \o,      *)
(* slice(0, k) cuts at a character position, trim() removes whitespace     *)
(* pieces from both ends.  Page texts are opaque: they are assumed not to  *)
(* contain a page marker themselves.                                       *)
(***************************************************************************)
EXTENDS Integers, Sequences, FiniteSets, TLC

VARIABLES
    messages,          \* Chat.tsx:28  useState<Message[]>([])
    input,             \* Chat.tsx:29  useState('')
    isLoading,         \* Chat.tsx:30  useState(false)
    attachment,        \* Chat.tsx:31  useState<Attachment | null>(null)
    uploadProgress,    \* Chat.tsx:32  useState(0)
    processingStatus,  \* Chat.tsx:33  useState<string>('')
    error,             \* Chat.tsx:34  useState<string | null>(null)
    mounted,           \* whether the Chat component is still mounted
    uploads,           \* the handleFileUpload invocations, in start order
    sends,             \* the handleSendMessage invocations, in start order
    revoked,           \* the URL.revokeObjectURL calls made, in order
    proc               \* one call of a service function followed step by step

vars == <<messages, input, isLoading, attachment, uploadProgress,
          processingStatus, error, mounted, uploads, sends, revoked, proc>>

chatVars == <<messages, input, isLoading, attachment, uploadProgress,
              processingStatus, error, mounted, uploads, sends, revoked>>

\* null / undefined where an object is expected
Null == [null |-> TRUE]

Min(a, b) == IF a <= b THEN a ELSE b

(***************************************************************************)
(* Strings                                                                 *)
(***************************************************************************)
Lit(s) == [kind |-> "lit", s |-> s, full |-> Len(s), len |-> Len(s)]

Str(s) == <<Lit(s)>>

PageText(fileName, pageNum, n) ==
    [kind |-> "page", s |-> fileName \o ":" \o ToString(pageNum),
     full |-> n, len |-> n]

RECURSIVE StrLen(_)
StrLen(str) == IF str = <<>> THEN 0 ELSE Head(str).len + StrLen(Tail(str))

\* String.prototype.slice(0, k) for k >= 0
RECURSIVE StrSlice(_, _)
StrSlice(str, k) ==
    IF str = <<>> \/ k <= 0 THEN <<>>
    ELSE IF Head(str).len <= k
         THEN <<Head(str)>> \o StrSlice(Tail(str), k - Head(str).len)
         ELSE <<[Head(str) EXCEPT !.len = k]>>

IsSpace(piece) == piece.kind = "lit" /\ piece.s \in {" ", "\n"}

RECURSIVE TrimStart(_)
TrimStart(str) ==
    IF str # <<>> /\ IsSpace(Head(str)) THEN TrimStart(Tail(str)) ELSE str

RECURSIVE TrimEnd(_)
TrimEnd(str) ==
    IF str # <<>> /\ IsSpace(str[Len(str)])
    THEN TrimEnd(SubSeq(str, 1, Len(str) - 1)) ELSE str

\* String.prototype.trim()
Trim(str) == TrimEnd(TrimStart(str))

\* Array.prototype.join(sep) over an array of strings
RECURSIVE Join(_, _)
Join(strs, sep) ==
    IF strs = <<>> THEN <<>>
    ELSE IF Len(strs) = 1 THEN strs[1]
    ELSE strs[1] \o sep \o Join(Tail(strs), sep)

\* Array.prototype.slice(-n) for n > 0
LastN(seq, n) ==
    IF Len(seq) <= n THEN seq ELSE SubSeq(seq, Len(seq) - n + 1, Len(seq))

NL == Str("\n")

\* null / undefined where a string is expected (it is no string: nothing
\* the program builds contains this piece)
NullStr == <<[kind |-> "null", s |-> "null", full |-> 0, len |-> 0]>>

\* JavaScript truthiness of an optional string
Truthy(str) == str # NullStr /\ str # <<>>

(***************************************************************************)
(* pdfService.ts: validatePDFFile                                          *)
(***************************************************************************)
PDF_MIME == "application/pdf"

maxSize == 15 * 1024 * 1024

ErrSelectPDF == Str("Please select a PDF file")

\* formatFileSize(bytes), kept as an opaque text that names its argument
formatFileSize(bytes) == Str("formatFileSize(" \o ToString(bytes) \o ")")

ErrFileSize(size) ==
    Str("File size (") \o formatFileSize(size) \o
    Str(") exceeds the maximum limit of ") \o formatFileSize(maxSize)

validatePDFFile_GE(file) ==
    IF file.type # PDF_MIME
    THEN [valid |-> FALSE, error |-> ErrSelectPDF]
    ELSE IF file.size >= maxSize
         THEN [valid |-> FALSE, error |-> ErrFileSize(file.size)]
         ELSE [valid |-> TRUE, error |-> NullStr]

validatePDFFile(file) ==
    IF file.type # PDF_MIME
    THEN [valid |-> FALSE, error |-> ErrSelectPDF]
    ELSE IF file.size > maxSize
         THEN [valid |-> FALSE, error |-> ErrFileSize(file.size)]
         ELSE [valid |-> TRUE, error |-> NullStr]

(***************************************************************************)
(* pdfService.ts: extractTextFromPDF                                       *)
(*                                                                         *)
(* A file is [name, type, size, pdf]; pdf says what the PDF library does     *)
(* with the file's bytes: load is "ok" or the error getDocument rejects    *)
(* with, meta is whether getMetadata succeeds, and pages[N] is what page N *)
(* does: fail is "none", "getPage" or "getTextContent" (the call that      *)
(* throws), and len is the length of the page's text after the whitespace  *)
(* normalisation and trim of lines 88-98 (0: the page has no text).        *)
(* A thrown value is [isError, msg, has]: whether it is an Error, its       *)
(* message, and which of the substrings the classifier looks for the       *)
(* message includes.  NoError stands for "nothing was thrown".             *)
(***************************************************************************)
NoError == [isError |-> FALSE, msg |-> "", has |-> {}]

ErrUnexpected ==
    Str("An unexpected error occurred while processing the PDF. Please try again.")

ErrEmptyInner ==
    [msg |-> "PDF appears to be empty or contains only images/scanned content. Text extraction failed.",
     has |-> {"empty"}, isError |-> TRUE]

ErrCorrupted ==
    Str("The uploaded file appears to be corrupted or is not a valid PDF document.")

ErrPassword ==
    Str("This PDF is password-protected. Please upload an unprotected PDF file.")

ErrImagesOnly ==
    Str("This PDF appears to contain only images or scanned content. Please try a PDF with selectable text.")

ErrFailedExtract(e) == Str("Failed to extract text from PDF: ") \o Str(e.msg)

PageMarker(pageNum) == Lit("--- Page " \o ToString(pageNum) \o " ---")

ErrorPlaceholder == Lit("[Error extracting text from this page]")

\* lines 101 and 108: the block pushed for a page
TextBlock(file, pageNum) ==
    <<PageMarker(pageNum)>> \o NL \o
    <<PageText(file.name, pageNum, file.pdf.pages[pageNum].len)>> \o NL

ErrorBlock(pageNum) == <<PageMarker(pageNum)>> \o NL \o <<ErrorPlaceholder>> \o NL

\* lines 81-109, one iteration of the page loop: the blocks it pushes, and
\* whether the page was obtained and whether page.cleanup() was called
pageStep_DropFailed(file, pageNum) ==
    LET page == file.pdf.pages[pageNum] IN
    IF page.fail = "getPage"
    THEN [push |-> <<>>, obtained |-> FALSE, cleaned |-> FALSE]
    ELSE IF page.fail = "getTextContent"
    THEN [push |-> <<ErrorBlock(pageNum)>>, obtained |-> TRUE, cleaned |-> FALSE]
    ELSE IF page.len > 0
    THEN [push |-> <<TextBlock(file, pageNum)>>, obtained |-> TRUE, cleaned |-> TRUE]
    ELSE [push |-> <<>>, obtained |-> TRUE, cleaned |-> TRUE]

pageStep_MarkEvery(file, pageNum) ==
    LET page == file.pdf.pages[pageNum] IN
    IF page.fail = "getPage"
    THEN [push |-> <<ErrorBlock(pageNum)>>, obtained |-> FALSE, cleaned |-> FALSE]
    ELSE IF page.fail = "getTextContent"
    THEN [push |-> <<ErrorBlock(pageNum)>>, obtained |-> TRUE, cleaned |-> FALSE]
    ELSE [push |-> <<TextBlock(file, pageNum)>>, obtained |-> TRUE, cleaned |-> TRUE]

pageStep(file, pageNum) ==
    LET page == file.pdf.pages[pageNum] IN
    IF page.fail = "getPage"
    THEN [push |-> <<ErrorBlock(pageNum)>>, obtained |-> FALSE, cleaned |-> FALSE]
    ELSE IF page.fail = "getTextContent"
    THEN [push |-> <<ErrorBlock(pageNum)>>, obtained |-> TRUE, cleaned |-> FALSE]
    ELSE IF page.len > 0
    THEN [push |-> <<TextBlock(file, pageNum)>>, obtained |-> TRUE, cleaned |-> TRUE]
    ELSE [push |-> <<>>, obtained |-> TRUE, cleaned |-> TRUE]

\* lines 62-77: the metadata bag (it has no pageCount field)
MetadataFields ==
    {"title", "author", "subject", "creator", "producer", "creationDate", "keywords"}

extractMetadata(file) ==
    IF file.pdf.meta THEN [fields |-> MetadataFields] ELSE [fields |-> {}]

\* lines 127-144: the outer catch
classifyError(e) ==
    IF ~e.isError THEN ErrUnexpected
    ELSE IF "Invalid PDF" \in e.has THEN ErrCorrupted
    ELSE IF "password" \in e.has THEN ErrPassword
    ELSE IF "empty" \in e.has THEN ErrImagesOnly
    ELSE ErrFailedExtract(e)

\* lines 112-126: join the pages, validate the extraction, return
finishExtraction(file, textPages, metadata) ==
    LET fullText == Trim(Join(textPages, NL)) IN
    IF fullText = <<>> \/ StrLen(fullText) < 10
    THEN [ok |-> FALSE, error |-> classifyError(ErrEmptyInner)]
    ELSE [ok |-> TRUE, text |-> fullText,
          pageCount |-> Len(file.pdf.pages), metadata |-> metadata]

RECURSIVE textPagesFrom(_, _)
textPagesFrom(file, pageNum) ==
    IF pageNum > Len(file.pdf.pages) THEN <<>>
    ELSE pageStep(file, pageNum).push \o textPagesFrom(file, pageNum + 1)

\* the whole of extractTextFromPDF
extractTextFromPDF(file) ==
    IF file.pdf.load # NoError
    THEN [ok |-> FALSE, error |-> classifyError(file.pdf.load)]
    ELSE finishExtraction(file, textPagesFrom(file, 1), extractMetadata(file))

(***************************************************************************)
(* pdfService.ts: processPDFFile                                           *)
(***************************************************************************)
\* lines 161-169; uid stands for generateId() and for the fresh blob URL
newAttachment(file, uid, extractionResult) ==
    [id |-> uid, name |-> file.name, type |-> "pdf", size |-> file.size,
     url |-> [scheme |-> "blob:", path |-> uid],
     extractedText |-> extractionResult.text,
     metadata |-> extractionResult.metadata]

\* lines 148-158, up to the first await: validate, then call extractTextFromPDF
processStart_SilentReject(file) ==
    LET validation == validatePDFFile(file) IN
    IF ~validation.valid
    THEN [pc |-> "thrown", error |-> NullStr, extractCalls |-> 0]
    ELSE [pc |-> "extracting", error |-> NullStr, extractCalls |-> 1]

processStart_ExtractFirst(file) ==
    [pc |-> "extracting", error |-> NullStr, extractCalls |-> 1]

processStart(file) ==
    LET validation == validatePDFFile(file) IN
    IF ~validation.valid
    THEN [pc |-> "thrown", error |-> validation.error, extractCalls |-> 0]
    ELSE [pc |-> "extracting", error |-> NullStr, extractCalls |-> 1]

\* lines 158-177, from the result of extractTextFromPDF on
processFinish(file, uid, extractionResult) ==
    IF ~extractionResult.ok
    THEN [pc |-> "thrown", error |-> extractionResult.error, attachment |-> Null,
          pageCount |-> 0]
    ELSE [pc |-> "returned", error |-> NullStr,
          attachment |-> newAttachment(file, uid, extractionResult),
          pageCount |-> extractionResult.pageCount]

(***************************************************************************)
(* One processPDFFile call, step by step (specification SpecProcess)       *)
(***************************************************************************)
MaxPages == 3

MiB == 1024 * 1024

FileTypes == {PDF_MIME, "image/png", ""}

FileSizes == {0, 1, maxSize - 1, maxSize, maxSize + 1, 20 * MiB}

\* what getDocument (or file.arrayBuffer) rejects with, by cause: a corrupt
\* stream, a zero-byte stream (corrupt as well; validation accepts size 0),
\* a password-protected document, two failures of another cause, and a
\* thrown value that is no Error
InvalidPDFError ==
    [isError |-> TRUE, msg |-> "Invalid PDF structure.", has |-> {"Invalid PDF"}]

EmptyFileError ==
    [isError |-> TRUE, msg |-> "The PDF file is empty, i.e. its size is zero bytes.",
     has |-> {"empty"}]

PasswordError ==
    [isError |-> TRUE, msg |-> "No password given", has |-> {"password"}]

ResponseError ==
    [isError |-> TRUE, msg |-> "Unexpected server response", has |-> {}]

WorkerError ==
    [isError |-> TRUE, msg |-> "Worker failed while reading the password dictionary",
     has |-> {"password"}]

ThrownValue ==
    [isError |-> FALSE, msg |-> "", has |-> {"thrown value that is no Error"}]

LoadErrors ==
    {InvalidPDFError, EmptyFileError, PasswordError, ResponseError, WorkerError,
     ThrownValue}

PageTextLens == {0, 3, 20}

PageKinds ==
    {[fail |-> "none", len |-> n] : n \in PageTextLens}
    \cup {[fail |-> f, len |-> 0] : f \in {"getPage", "getTextContent"}}

PageSeqs == UNION {[1..n -> PageKinds] : n \in 0..MaxPages}

Pdfs ==
    {[load |-> NoError, meta |-> m, pages |-> ps] : m \in BOOLEAN, ps \in PageSeqs}
    \cup {[load |-> e, meta |-> TRUE, pages |-> <<>>] : e \in LoadErrors}

ProcFiles ==
    {[name |-> "doc.pdf", type |-> ty, size |-> sz, pdf |-> pdf] :
        ty \in FileTypes, sz \in FileSizes, pdf \in Pdfs}

ProcIdle == [pc |-> "idle"]

ProcInit(file) ==
    [pc |-> "start", file |-> file, validation |-> Null, extractCalls |-> 0,
     pageNum |-> 0, textPages |-> <<>>, metadata |-> Null,
     obtained |-> {}, cleaned |-> {}, result |-> Null]

\* processPDFFile lines 148-158
ProcValidate ==
    /\ proc.pc = "start"
    /\ LET st == processStart(proc.file) IN
       proc' = [proc EXCEPT !.pc = st.pc,
                            !.validation = validatePDFFile(proc.file),
                            !.extractCalls = st.extractCalls,
                            !.result = IF st.pc = "thrown"
                                       THEN [pc |-> "thrown", error |-> st.error,
                                             attachment |-> Null, pageCount |-> 0]
                                       ELSE Null]
    /\ UNCHANGED chatVars

\* extractTextFromPDF lines 45-77: load the document, read the metadata
ProcLoad ==
    /\ proc.pc = "extracting"
    /\ IF proc.file.pdf.load # NoError
       THEN proc' = [proc EXCEPT
                !.pc = "thrown",
                !.result = processFinish(proc.file, 1,
                    [ok |-> FALSE, error |-> classifyError(proc.file.pdf.load)])]
       ELSE proc' = [proc EXCEPT !.pc = "pages", !.pageNum = 1,
                                 !.metadata = extractMetadata(proc.file)]
    /\ UNCHANGED chatVars

\* extractTextFromPDF lines 80-110: one iteration of the page loop
ProcPage ==
    /\ proc.pc = "pages"
    /\ proc.pageNum <= Len(proc.file.pdf.pages)
    /\ LET step == pageStep(proc.file, proc.pageNum) IN
       proc' = [proc EXCEPT
                !.pageNum = @ + 1,
                !.textPages = @ \o step.push,
                !.obtained = IF step.obtained THEN @ \cup {proc.pageNum} ELSE @,
                !.cleaned = IF step.cleaned THEN @ \cup {proc.pageNum} ELSE @]
    /\ UNCHANGED chatVars

\* extractTextFromPDF lines 112-144 and processPDFFile lines 160-177
ProcJoin ==
    /\ proc.pc = "pages"
    /\ proc.pageNum > Len(proc.file.pdf.pages)
    /\ LET res == processFinish(proc.file, 1,
                      finishExtraction(proc.file, proc.textPages, proc.metadata)) IN
       proc' = [proc EXCEPT !.pc = res.pc, !.result = res]
    /\ UNCHANGED chatVars

(***************************************************************************)
(* groqService.ts: chatWithContext                                         *)
(*                                                                         *)
(* What the completion endpoint does with one request is an outcome        *)
(* [err, content]: err is NoError or the value the call throws, content is *)
(* choices[0]?.message?.content (NullStr when absent).                     *)
(* A call of chatWithContext is a record: pc is "primary" or "fallback"    *)
(* while the named request is awaited and "returned" or "thrown" once the  *)
(* call has ended; requests are the requests sent so far, in order;        *)
(* outstanding are the models with a request in flight.                    *)
(***************************************************************************)
DEFAULT_MODEL == "meta-llama/llama-4-scout-17b-16e-instruct"

FALLBACK_MODEL == "llama3-8b-8192"

aiPrompt == Str("You are an elite AI assistant specializing in document analysis ...")

PRIMARY_HISTORY == 10

PRIMARY_CONTEXT == 8000

FALLBACK_HISTORY == 8

FALLBACK_CONTEXT == 6000

ContextPrefix == Lit("Document Context:\n")

QuestionPrefix == Lit("\n\nUser Question: ")

ErrUnavailable ==
    Str("AI service is currently unavailable. Please try again in a moment.")

SystemMessage == [role |-> "system", content |-> aiPrompt]

\* lines 66-93: the request to the primary model
primaryRequest_History8(userMessage, conversationHistory, documentContext) ==
    [model |-> DEFAULT_MODEL,
     max_tokens |-> 2000,
     messages |->
        <<SystemMessage>> \o LastN(conversationHistory, FALLBACK_HISTORY) \o
        <<[role |-> "user",
           content |-> IF Truthy(documentContext)
                       THEN <<ContextPrefix>> \o
                            StrSlice(documentContext, PRIMARY_CONTEXT) \o
                            <<QuestionPrefix>> \o userMessage
                       ELSE userMessage]>>]

primaryRequest_Context6000(userMessage, conversationHistory, documentContext) ==
    [model |-> DEFAULT_MODEL,
     max_tokens |-> 2000,
     messages |->
        <<SystemMessage>> \o LastN(conversationHistory, PRIMARY_HISTORY) \o
        <<[role |-> "user",
           content |-> IF Truthy(documentContext)
                       THEN <<ContextPrefix>> \o
                            StrSlice(documentContext, FALLBACK_CONTEXT) \o
                            <<QuestionPrefix>> \o userMessage
                       ELSE userMessage]>>]

primaryRequest(userMessage, conversationHistory, documentContext) ==
    LET history == IF Len(conversationHistory) > 0
                   THEN LastN(conversationHistory, PRIMARY_HISTORY) ELSE <<>>
        userContent ==
            IF Truthy(documentContext)
            THEN <<ContextPrefix>> \o StrSlice(documentContext, PRIMARY_CONTEXT) \o
                 <<QuestionPrefix>> \o userMessage
            ELSE userMessage
    IN  [model |-> DEFAULT_MODEL,
         max_tokens |-> 2000,
         messages |-> <<SystemMessage>> \o history \o
                      <<[role |-> "user", content |-> userContent]>>]

\* lines 106-126: the request to the fallback model
fallbackRequest_Primary(userMessage, conversationHistory, documentContext) ==
    [primaryRequest(userMessage, conversationHistory, documentContext)
        EXCEPT !.model = FALLBACK_MODEL, !.max_tokens = 1500]

fallbackRequest(userMessage, conversationHistory, documentContext) ==
    [model |-> FALLBACK_MODEL,
     max_tokens |-> 1500,
     messages |->
        <<SystemMessage>> \o LastN(conversationHistory, FALLBACK_HISTORY) \o
        <<[role |-> "user",
           content |-> IF Truthy(documentContext)
                       THEN <<ContextPrefix>> \o
                            StrSlice(documentContext, FALLBACK_CONTEXT) \o
                            <<QuestionPrefix>> \o userMessage
                       ELSE userMessage]>>]

\* lines 60-93: the call up to its first await
chatStart(userMessage, conversationHistory, documentContext) ==
    [pc |-> "primary",
     userMessage |-> userMessage,
     conversationHistory |-> conversationHistory,
     documentContext |-> documentContext,
     requests |-> <<primaryRequest(userMessage, conversationHistory, documentContext)>>,
     outcomes |-> <<>>,
     outstanding |-> {DEFAULT_MODEL},
     result |-> NullStr]

\* lines 95-98 and 128-131: the call threw, or `!response`
Failed(outcome) == outcome.err # NoError \/ ~Truthy(outcome.content)

\* the fallback request goes out, lines 101-126
startFallback(call, outcome) ==
    [call EXCEPT
        !.pc = "fallback",
        !.outcomes = @ \o <<outcome>>,
        !.requests = @ \o <<fallbackRequest(call.userMessage,
                                call.conversationHistory, call.documentContext)>>,
        !.outstanding = (@ \ {DEFAULT_MODEL}) \cup {FALLBACK_MODEL}]

\* lines 89-126: the primary request completes
primaryComplete_Always(call, outcome) == startFallback(call, outcome)

primaryComplete(call, outcome) ==
    IF Failed(outcome)
    THEN startFallback(call, outcome)
    ELSE [call EXCEPT !.pc = "returned",
                      !.outcomes = @ \o <<outcome>>,
                      !.outstanding = @ \ {DEFAULT_MODEL},
                      !.result = Trim(outcome.content)]

\* lines 120-137: the fallback request completes
fallbackComplete_Leak(call, outcome) ==
    IF Failed(outcome)
    THEN [call EXCEPT !.pc = "thrown",
                      !.outcomes = @ \o <<outcome>>,
                      !.outstanding = @ \ {FALLBACK_MODEL},
                      !.result = IF outcome.err # NoError
                                 THEN Str(outcome.err.msg) ELSE ErrUnavailable]
    ELSE [call EXCEPT !.pc = "returned",
                      !.outcomes = @ \o <<outcome>>,
                      !.outstanding = @ \ {FALLBACK_MODEL},
                      !.result = Trim(outcome.content)]

fallbackComplete(call, outcome) ==
    IF Failed(outcome)
    THEN [call EXCEPT !.pc = "thrown",
                      !.outcomes = @ \o <<outcome>>,
                      !.outstanding = @ \ {FALLBACK_MODEL},
                      !.result = ErrUnavailable]
    ELSE [call EXCEPT !.pc = "returned",
                      !.outcomes = @ \o <<outcome>>,
                      !.outstanding = @ \ {FALLBACK_MODEL},
                      !.result = Trim(outcome.content)]

(***************************************************************************)
(* pdfService.ts: cleanupPDFResources, getPDFStats                         *)
(***************************************************************************)
\* revoked counts the URL.revokeObjectURL calls per URL
Revoke(rv, url) ==
    IF url \in DOMAIN rv THEN [rv EXCEPT ![url] = @ + 1] ELSE rv @@ (url :> 1)

\* lines 193-197
cleanupPDFResources(rv, att) ==
    IF att.url.scheme = "blob:" THEN Revoke(rv, att.url) ELSE rv

\* lines 206-223, the pages field: attachment.metadata?.pageCount || 0
statsPages(att) ==
    IF "pageCount" \in att.metadata.fields THEN att.metadata.pageCount ELSE 0

(***************************************************************************)
(* Chat.tsx: the Chat component                                            *)
(*                                                                         *)
(* A handler runs to its next await in one step and sees the state of the  *)
(* render it was created in; what it reads after an await is what it       *)
(* captured then (attachment in handleFileUpload).  State setters of an    *)
(* unmounted component do nothing.  The effect of lines 46-52 runs its     *)
(* cleanup with the attachment it was created with whenever attachment     *)
(* changes and when the component unmounts.                                *)
(***************************************************************************)
StatusExtracting == Str("Extracting text from PDF...")

FixedReply ==
    Str("I can see you have uploaded a document. Please ask me a question about its content.")

\* lines 46-52: the effect cleanup that runs when attachment changes
effectCleanup(rv, oldAttachment, newAttachmentValue) ==
    IF oldAttachment # Null /\ oldAttachment # newAttachmentValue
    THEN cleanupPDFResources(rv, oldAttachment) ELSE rv

\* lines 91-113: the analysis message
analysisMessage(att) ==
    [role |-> "assistant",
     content |-> Str("# PDF Analysis Complete\n\n**Document**: ") \o Str(att.name) \o
                 Str("\n**Pages**: ") \o Str(ToString(statsPages(att))) \o
                 Str("\n**Word Count**: ...")]

\* lines 62-69: one tick of the progress interval
progressTick(prev) ==
    IF prev < 30 THEN prev + 5
    ELSE IF prev < 60 THEN prev + 3
    ELSE IF prev < 85 THEN prev + 2
    ELSE prev + 1

\* the file input's onChange (lines 527-530) after a click on the paperclip
\* (lines 534-541, disabled while isLoading) or on the welcome area's button
\* (lines 325, 342-347, shown while there is no message and no attachment)
CanSelectFile ==
    /\ mounted
    /\ \/ ~isLoading
       \/ messages = <<>> /\ attachment = Null

\* the input element keeps its selection (its value is never reset), so
\* onChange fires only for a file other than the one selected last
SelectionChanges(file) ==
    IF uploads = <<>> THEN TRUE ELSE uploads[Len(uploads)].file # file

\* handleFileUpload lines 54-73, and lines 130-138 when validation fails
SelectFile(file) ==
    /\ CanSelectFile
    /\ SelectionChanges(file)
    /\ LET st == processStart(file) IN
       /\ uploads' = Append(uploads,
              [file |-> file, attachment |-> attachment, pc |-> st.pc,
               timer |-> TRUE, extractCalls |-> st.extractCalls])
       /\ IF st.pc = "thrown"
          THEN /\ isLoading' = FALSE
               /\ error' = st.error
               /\ processingStatus' = <<>>
          ELSE /\ isLoading' = TRUE
               /\ error' = NullStr
               /\ processingStatus' = StatusExtracting
       /\ uploadProgress' = 0
    /\ UNCHANGED <<messages, input, attachment, mounted, sends, revoked, proc>>

\* handleFileUpload lines 73-138: processPDFFile settles
ExtractionComplete(i) ==
    /\ i \in DOMAIN uploads
    /\ uploads[i].pc = "extracting"
    /\ LET up  == uploads[i]
           res == processFinish(up.file, i, extractTextFromPDF(up.file))
           rv1 == IF res.pc = "returned" /\ up.attachment # Null
                  THEN cleanupPDFResources(revoked, up.attachment) ELSE revoked
       IN
       /\ uploads' = [uploads EXCEPT ![i].pc = res.pc,
                                     ![i].timer = (res.pc # "returned")]
       /\ IF res.pc = "returned"
          THEN IF mounted
               THEN /\ attachment' = res.attachment
                    /\ messages' = Append(messages, analysisMessage(res.attachment))
                    /\ revoked' = effectCleanup(rv1, attachment, res.attachment)
                    /\ error' = error
               ELSE /\ revoked' = rv1
                    /\ UNCHANGED <<attachment, messages, error>>
          ELSE /\ error' = IF mounted THEN res.error ELSE error
               /\ UNCHANGED <<attachment, messages, revoked>>
       /\ IF mounted
          THEN isLoading' = FALSE /\ uploadProgress' = 0 /\ processingStatus' = <<>>
          ELSE UNCHANGED <<isLoading, uploadProgress, processingStatus>>
    /\ UNCHANGED <<input, mounted, sends, proc>>

\* lines 62-69: the interval of upload i fires
Tick(i) ==
    /\ i \in DOMAIN uploads
    /\ uploads[i].timer
    /\ mounted
    /\ uploadProgress' = progressTick(uploadProgress)
    /\ UNCHANGED <<messages, input, isLoading, attachment, processingStatus,
                   error, mounted, uploads, sends, revoked, proc>>

\* the textarea's onChange, lines 544-553 (disabled while isLoading)
TypeInput(text) ==
    /\ mounted
    /\ ~isLoading
    /\ input # text
    /\ input' = text
    /\ UNCHANGED <<messages, isLoading, attachment, uploadProgress,
                   processingStatus, error, mounted, uploads, sends, revoked, proc>>

toHistory_WithNewest(msgs) ==
    [k \in 1..(Len(msgs) + 1) |->
        IF k <= Len(msgs) THEN [role |-> msgs[k].role, content |-> msgs[k].content]
        ELSE [role |-> "user", content |-> Trim(input)]]

toHistory(msgs) == [k \in DOMAIN msgs |-> [role |-> msgs[k].role, content |-> msgs[k].content]]

\* handleSendMessage lines 141-183 (and 185-199 when no request is made),
\* called by the send button (lines 556-562) or by Enter in the textarea
\* (lines 209-214, 547), both disabled while isLoading; line 142 returns
\* before anything is changed
HandleSendMessage ==
    /\ mounted
    /\ ~isLoading
    /\ IF (Trim(input) = <<>> /\ attachment = Null) \/ isLoading
       THEN UNCHANGED <<messages, input, isLoading, error, sends>>
       ELSE /\ LET userMessage == [role |-> "user", content |-> Trim(input)]
                   conversationHistory == toHistory(messages)
               IN
               IF attachment # Null /\ Truthy(attachment.extractedText)
               THEN /\ sends' = Append(sends,
                            chatStart(Trim(input), conversationHistory,
                                      attachment.extractedText))
                    /\ messages' = Append(messages, userMessage)
                    /\ isLoading' = TRUE
               ELSE IF Trim(input) # <<>>
               THEN /\ sends' = Append(sends,
                            chatStart(Trim(input), conversationHistory, NullStr))
                    /\ messages' = Append(messages, userMessage)
                    /\ isLoading' = TRUE
               ELSE /\ sends' = sends
                    /\ messages' = messages \o
                           <<userMessage,
                             [role |-> "assistant", content |-> FixedReply]>>
                    /\ isLoading' = FALSE
            /\ input' = <<>>
            /\ error' = NullStr
    /\ UNCHANGED <<attachment, uploadProgress, processingStatus, mounted,
                   uploads, revoked, proc>>

\* handleSendMessage lines 185-199 once chatWithContext has settled
sendSettles_StuckOnError(call) ==
    /\ IF mounted
       THEN IF call.pc = "returned"
            THEN /\ messages' = Append(messages,
                       [role |-> "assistant", content |-> call.result])
                 /\ error' = error
                 /\ isLoading' = FALSE
            ELSE /\ error' = call.result
                 /\ messages' = messages
                 /\ isLoading' = isLoading
       ELSE UNCHANGED <<isLoading, messages, error>>

sendSettles_Overwrite(call) ==
    /\ IF mounted
       THEN /\ isLoading' = FALSE
            /\ IF call.pc = "returned"
               THEN /\ messages' = Append(SubSeq(messages, 1, Len(messages) - 1),
                          [role |-> "assistant", content |-> call.result])
                    /\ error' = error
               ELSE /\ error' = call.result
                    /\ messages' = messages
       ELSE UNCHANGED <<isLoading, messages, error>>

sendSettles(call) ==
    /\ IF mounted
       THEN /\ isLoading' = FALSE
            /\ IF call.pc = "returned"
               THEN /\ messages' = Append(messages,
                          [role |-> "assistant", content |-> call.result])
                    /\ error' = error
               ELSE /\ error' = call.result
                    /\ messages' = messages
       ELSE UNCHANGED <<isLoading, messages, error>>

\* the primary request of send i completes (groqService.ts lines 89-126)
PrimaryRespond(i, outcome) ==
    /\ i \in DOMAIN sends
    /\ sends[i].pc = "primary"
    /\ LET call == primaryComplete(sends[i], outcome) IN
       /\ sends' = [sends EXCEPT ![i] = call]
       /\ IF call.pc = "fallback"
          THEN UNCHANGED <<isLoading, messages, error>>
          ELSE sendSettles(call)
    /\ UNCHANGED <<input, attachment, uploadProgress, processingStatus, mounted,
                   uploads, revoked, proc>>

\* the fallback request of send i completes (groqService.ts lines 120-137)
FallbackRespond(i, outcome) ==
    /\ i \in DOMAIN sends
    /\ sends[i].pc = "fallback"
    /\ LET call == fallbackComplete(sends[i], outcome) IN
       /\ sends' = [sends EXCEPT ![i] = call]
       /\ sendSettles(call)
    /\ UNCHANGED <<input, attachment, uploadProgress, processingStatus, mounted,
                   uploads, revoked, proc>>

\* removeAttachment lines 202-207, and the effect cleanup that follows
RemoveAttachment ==
    /\ mounted
    /\ attachment # Null
    /\ revoked' = effectCleanup(cleanupPDFResources(revoked, attachment),
                                attachment, Null)
    /\ attachment' = Null
    /\ UNCHANGED <<messages, input, isLoading, uploadProgress, processingStatus,
                   error, mounted, uploads, sends, proc>>

\* the error banner's button, line 485
DismissError ==
    /\ mounted
    /\ error # NullStr
    /\ error' = NullStr
    /\ UNCHANGED <<messages, input, isLoading, attachment, uploadProgress,
                   processingStatus, mounted, uploads, sends, revoked, proc>>

\* onBackToLanding: the component unmounts, the effect cleanup runs (lines 46-52)
Unmount ==
    /\ mounted
    /\ mounted' = FALSE
    /\ revoked' = effectCleanup(revoked, attachment, Null)
    /\ UNCHANGED <<messages, input, isLoading, attachment, uploadProgress,
                   processingStatus, error, uploads, sends, proc>>

(***************************************************************************)
(* Specification Spec: the Chat component from its construction            *)
(***************************************************************************)
\* handler invocations (uploads and sends together) that are followed
MaxOps == 3

TickCap == 5

OnePage(n) == <<[fail |-> "none", len |-> n]>>

SpecFiles ==
    {[name |-> "notes.png", type |-> "image/png", size |-> 1,
      pdf |-> [load |-> NoError, meta |-> TRUE, pages |-> OnePage(20)]],
     [name |-> "huge.pdf", type |-> PDF_MIME, size |-> 20 * MiB,
      pdf |-> [load |-> NoError, meta |-> TRUE, pages |-> OnePage(20)]],
     [name |-> "report.pdf", type |-> PDF_MIME, size |-> maxSize,
      pdf |-> [load |-> NoError, meta |-> TRUE, pages |-> OnePage(20)]],
     [name |-> "scan.pdf", type |-> PDF_MIME, size |-> 1,
      pdf |-> [load |-> NoError, meta |-> TRUE, pages |-> OnePage(0)]]}

Space == Lit(" ")

LetterA == Lit("a")

Inputs == {<<>>, <<Space, LetterA>>}

ErrTimeout == [isError |-> TRUE, msg |-> "Request timed out.", has |-> {}]

ErrRateLimit == [isError |-> TRUE, msg |-> "429 rate limit exceeded", has |-> {}]

ModelOutcomes ==
    {[err |-> ErrTimeout, content |-> NullStr],
     [err |-> NoError, content |-> <<LetterA, Space>>],
     [err |-> NoError, content |-> <<Space>>]}

Init ==
    /\ messages = <<>>
    /\ input = <<>>
    /\ isLoading = FALSE
    /\ attachment = Null
    /\ uploadProgress = 0
    /\ processingStatus = <<>>
    /\ error = NullStr
    /\ mounted = TRUE
    /\ uploads = <<>>
    /\ sends = <<>>
    /\ revoked = <<>>
    /\ proc = ProcIdle

Next ==
    \/ \E file \in SpecFiles : Len(uploads) + Len(sends) < MaxOps /\ SelectFile(file)
    \/ \E i \in DOMAIN uploads : ExtractionComplete(i)
    \/ \E i \in DOMAIN uploads : uploadProgress < TickCap /\ Tick(i)
    \/ \E text \in Inputs : TypeInput(text)
    \/ Len(uploads) + Len(sends) < MaxOps /\ HandleSendMessage
    \/ \E i \in DOMAIN sends, outcome \in ModelOutcomes : PrimaryRespond(i, outcome)
    \/ \E i \in DOMAIN sends, outcome \in ModelOutcomes : FallbackRespond(i, outcome)
    \/ RemoveAttachment
    \/ DismissError
    \/ Unmount

Spec == Init /\ [][Next]_vars

(***************************************************************************)
(* Specification SpecProcess: one processPDFFile call on any sample file   *)
(***************************************************************************)
InitProcess ==
    /\ messages = <<>>
    /\ input = <<>>
    /\ isLoading = FALSE
    /\ attachment = Null
    /\ uploadProgress = 0
    /\ processingStatus = <<>>
    /\ error = NullStr
    /\ mounted = TRUE
    /\ uploads = <<>>
    /\ sends = <<>>
    /\ revoked = <<>>
    /\ proc \in {ProcInit(file) : file \in ProcFiles}

NextProcess ==
    \/ ProcValidate
    \/ ProcLoad
    \/ ProcPage
    \/ ProcJoin

SpecProcess == InitProcess /\ [][NextProcess]_vars

(***************************************************************************)
(* Specification SpecAsk: one send, from a conversation of any length up   *)
(* to MaxHistory exchanged messages, with or without a document.  The      *)
(* initial states are states of the component after one upload (or none)   *)
(* and a dialogue of alternating user and assistant messages.              *)
(***************************************************************************)
MaxHistory == 12

AskFile(name, lens) ==
    [name |-> name, type |-> PDF_MIME, size |-> 1,
     pdf |-> [load |-> NoError, meta |-> TRUE,
              pages |-> [k \in DOMAIN lens |-> [fail |-> "none", len |-> lens[k]]]]]

AskFiles ==
    {AskFile("short.pdf", <<20>>),
     AskFile("medium.pdf", <<7000>>),
     AskFile("edge.pdf", <<7985>>),
     AskFile("long.pdf", <<5000, 5000>>)}

Dialogue(n) ==
    [k \in 1..n |->
        IF k % 2 = 1
        THEN [role |-> "user", content |-> Str("question " \o ToString(k))]
        ELSE [role |-> "assistant", content |-> Str("answer " \o ToString(k))]]

AskInputs == {<<>>, <<Space>>, <<LetterA>>, <<Space, LetterA, Space>>}

AskOutcomes ==
    {[err |-> e, content |-> NullStr] : e \in {ErrTimeout, ErrRateLimit}}
    \cup {[err |-> NoError, content |-> c] : c \in {NullStr} \cup AskInputs}

InitAsk ==
    /\ input = <<>>
    /\ isLoading = FALSE
    /\ uploadProgress = 0
    /\ processingStatus = <<>>
    /\ error = NullStr
    /\ mounted = TRUE
    /\ sends = <<>>
    /\ revoked = <<>>
    /\ proc = ProcIdle
    /\ \E n \in 0..MaxHistory :
        \/ /\ attachment = Null
           /\ uploads = <<>>
           /\ messages = Dialogue(n)
        \/ \E file \in AskFiles :
            LET res == processFinish(file, 1, extractTextFromPDF(file)) IN
            /\ attachment = res.attachment
            /\ uploads = <<[file |-> file, attachment |-> Null, pc |-> res.pc,
                            timer |-> FALSE, extractCalls |-> 1]>>
            /\ messages = <<analysisMessage(res.attachment)>> \o Dialogue(n)

NextAsk ==
    \/ \E text \in AskInputs : TypeInput(text)
    \/ sends = <<>> /\ HandleSendMessage
    \/ \E i \in DOMAIN sends, outcome \in AskOutcomes : PrimaryRespond(i, outcome)
    \/ \E i \in DOMAIN sends, outcome \in AskOutcomes : FallbackRespond(i, outcome)

SpecAsk == InitAsk /\ [][NextAsk]_vars

(***************************************************************************)
(* Properties                                                              *)
(***************************************************************************)
\* a model call that threw, or returned no content (absent or empty)
NoContent(outcome) ==
    outcome.err # NoError \/ outcome.content = NullStr \/ outcome.content = <<>>

\* the entries of a request between the system message and the user turn
HistoryPart(request) == SubSeq(request.messages, 2, Len(request.messages) - 1)

UserTurn(request) == request.messages[Len(request.messages)]

\* the part of a user turn between its first piece and the separator that
\* precedes the question
ContextPart(content, question) ==
    SubSeq(content, 2, Len(content) - Len(question) - 1)

RequestsTo(call, model) == {j \in DOMAIN call.requests : call.requests[j].model = model}

InFlightUploads == {i \in DOMAIN uploads : uploads[i].pc = "extracting"}

InFlightSends == {i \in DOMAIN sends : sends[i].pc \in {"primary", "fallback"}}

\* C1: whenever the primary model call of chatWithContext fails (throws or
\* returns no content), the secondary model is invoked, with at most the last
\* 8 entries of the given history in their original order and with at most
\* the first 6000 characters of the document text as document context.
C1_FallbackRequest ==
    \A i \in DOMAIN sends :
        LET call == sends[i] IN
        (Len(call.outcomes) >= 1 /\ NoContent(call.outcomes[1])) =>
            /\ Len(call.requests) = 2
            /\ LET request == call.requests[2]
                   given == call.conversationHistory
                   m == Min(8, Len(given))
                   doc == call.documentContext
                   content == UserTurn(request).content
               IN  /\ request.model = FALLBACK_MODEL
                   /\ Len(HistoryPart(request)) = m
                   /\ \A j \in 1..m :
                        HistoryPart(request)[j] = given[Len(given) - m + j]
                   /\ IF Truthy(doc)
                      THEN LET ctx == ContextPart(content, call.userMessage) IN
                           /\ StrLen(ctx) = Min(6000, StrLen(doc))
                           /\ ctx = StrSlice(doc, StrLen(ctx))
                           /\ StrLen(content) <=
                                6000 + ContextPrefix.len + QuestionPrefix.len
                                + StrLen(call.userMessage)
                      ELSE content = call.userMessage

C1_Witness ==
    \E i \in DOMAIN sends :
        /\ sends[i].pc = "fallback"
        /\ Len(sends[i].conversationHistory) > 8
        /\ StrLen(sends[i].documentContext) > 6000

\* C2: if both model calls fail or return an empty body, chatWithContext
\* fails with the one fixed "unavailable" error, whatever the two underlying
\* failures were; it never fails with anything else.
C2_ServiceUnavailable ==
    /\ \A i \in DOMAIN sends :
        LET call == sends[i] IN
        /\ (Len(call.outcomes) = 2 /\ NoContent(call.outcomes[1])
                                   /\ NoContent(call.outcomes[2]))
              => (call.pc = "thrown" /\ call.result = ErrUnavailable)
        /\ call.pc = "thrown" => call.result = ErrUnavailable
    /\ error # NullStr => error = ErrUnavailable

C2_Witness ==
    \E i \in DOMAIN sends :
        /\ sends[i].pc = "thrown"
        /\ sends[i].outcomes[1].err = ErrTimeout
        /\ sends[i].outcomes[2].err = ErrRateLimit
        /\ error = ErrUnavailable

\* C3: chatWithContext never returns successfully with a string that is
\* empty after trimming (a whitespace-only response counts as a failure).
C3_NeverReturnsEmpty ==
    \A i \in DOMAIN sends :
        sends[i].pc = "returned" => Trim(sends[i].result) # <<>>

\* C4: within one chatWithContext call the primary model is called exactly
\* once, the secondary at most once and only after the primary call has
\* finished in failure, and the two requests are never outstanding together.
C4_Sequential ==
    \A i \in DOMAIN sends :
        LET call == sends[i]
            primary == RequestsTo(call, DEFAULT_MODEL)
            secondary == RequestsTo(call, FALLBACK_MODEL)
        IN  /\ primary = {1}
            /\ Cardinality(secondary) <= 1
            /\ Len(call.requests) = Cardinality(primary) + Cardinality(secondary)
            /\ secondary # {} =>
                 /\ Len(call.outcomes) >= 1
                 /\ NoContent(call.outcomes[1])
                 /\ DEFAULT_MODEL \notin call.outstanding
            /\ Cardinality(call.outstanding) <= 1
            /\ Len(call.outcomes) + Cardinality(call.outstanding) = Len(call.requests)

C4_Witness ==
    \E i \in DOMAIN sends :
        /\ sends[i].pc = "fallback"
        /\ sends[i].outstanding = {FALLBACK_MODEL}
        /\ sends[i].outcomes[1].err = NoError

\* C5: on every accepted send with n prior messages the request to the
\* primary model is the system message, then exactly the last min(n, 10)
\* prior messages in their order, then the new user turn as the last entry.
C5_PrimaryRequestHistory ==
    [][Len(sends') > Len(sends) =>
        LET request == sends'[Len(sends')].requests[1]
            n == Len(messages)
            m == Min(n, 10)
            question == Trim(input)
            turn == UserTurn(request)
        IN  /\ request.model = DEFAULT_MODEL
            /\ Len(request.messages) = m + 2
            /\ request.messages[1] = SystemMessage
            /\ \A j \in 1..m :
                 request.messages[1 + j] =
                    [role |-> messages[n - m + j].role,
                     content |-> messages[n - m + j].content]
            /\ turn.role = "user"
            /\ Len(turn.content) >= Len(question)
            /\ SubSeq(turn.content, Len(turn.content) - Len(question) + 1,
                      Len(turn.content)) = question
      ]_vars

C5_Witness ==
    /\ Len(messages) = 12
    /\ \E i \in DOMAIN sends :
        /\ sends[i].pc = "primary"
        /\ Len(sends[i].requests[1].messages) = 12
        /\ HistoryPart(sends[i].requests[1])[1] = [role |-> messages[2].role,
                                                  content |-> messages[2].content]

\* C6: on a send with an attachment that has extracted text, the user turn
\* sent to the primary model starts with 'Document Context:\n', followed by
\* the first min(8000, length) characters of the extracted text, and ends
\* with the question; without a document the user turn is the question.
C6_DocumentContext ==
    [][Len(sends') > Len(sends) =>
        LET content == UserTurn(sends'[Len(sends')].requests[1]).content
            question == Trim(input)
        IN  IF attachment # Null /\ Truthy(attachment.extractedText)
            THEN LET text == attachment.extractedText
                     ctx == ContextPart(content, question)
                 IN  /\ content[1] = Lit("Document Context:\n")
                     /\ StrLen(ctx) = Min(8000, StrLen(text))
                     /\ ctx = StrSlice(text, StrLen(ctx))
                     /\ content[Len(content) - Len(question)].kind = "lit"
                     /\ SubSeq(content, Len(content) - Len(question) + 1,
                               Len(content)) = question
            ELSE content = question
      ]_vars

C6_Witness ==
    \E i \in DOMAIN sends :
        /\ sends[i].pc = "primary"
        /\ StrLen(sends[i].documentContext) > 8000
        /\ StrLen(UserTurn(sends[i].requests[1]).content) =
              8000 + ContextPrefix.len + QuestionPrefix.len
              + StrLen(sends[i].userMessage)

\* C7: in every reachable state the number of outstanding upload/extraction
\* operations plus outstanding model requests is at most 1.
C7_AtMostOneInFlight ==
    Cardinality(InFlightUploads) + Cardinality(InFlightSends) <= 1

\* a file that fails validation: wrong media type, or larger than 15 MiB
FailsValidation(file) ==
    file.type # "application/pdf" \/ file.size > 15 * 1024 * 1024

\* C8: for a file that fails validation, extractTextFromPDF is never invoked,
\* the upload ends with the error, and the handler that rejects it makes no
\* model call.
C8_RejectedBeforeExtraction ==
    [][\A i \in DOMAIN uploads' :
        FailsValidation(uploads'[i].file) =>
            /\ uploads'[i].extractCalls = 0
            /\ uploads'[i].pc = "thrown"
            /\ i \notin DOMAIN uploads => sends' = sends
      ]_vars

C8_Witness ==
    /\ \E i \in DOMAIN uploads :
        /\ uploads[i].file.size = 20 * MiB
        /\ uploads[i].pc = "thrown"
    /\ \E i \in DOMAIN uploads :
        /\ uploads[i].file.type # PDF_MIME
        /\ uploads[i].pc = "thrown"
    /\ sends # <<>>

\* C9: validatePDFFile fails with the unsupported-type error exactly when
\* the media type is not application/pdf, otherwise with the too-large error
\* exactly when the size is greater than 15 * 1024 * 1024 bytes, and
\* otherwise succeeds.
C9_Validate ==
    proc.pc \notin {"idle", "start"} =>
        LET file == proc.file
            validation == proc.validation
        IN  IF file.type # "application/pdf"
            THEN ~validation.valid /\ validation.error = ErrSelectPDF
            ELSE IF file.size > 15728640
            THEN ~validation.valid /\ validation.error = ErrFileSize(file.size)
            ELSE validation.valid /\ validation.error = NullStr

C9_Witness ==
    /\ proc.pc = "extracting"
    /\ proc.file.size = 15728640
    /\ proc.validation.valid

\* the page numbers of the page markers of a text, in the order they occur
RECURSIVE MarkerSeq(_, _)
MarkerSeq(text, pageCount) ==
    IF text = <<>> THEN <<>>
    ELSE LET here == {N \in 1..pageCount : Head(text) = PageMarker(N)} IN
         (IF here = {} THEN <<>> ELSE <<CHOOSE N \in here : TRUE>>)
         \o MarkerSeq(Tail(text), pageCount)

Increasing(seq) == \A j \in 1..(Len(seq) - 1) : seq[j] < seq[j + 1]

RECURSIVE ExtractableChars(_)
ExtractableChars(pages) ==
    IF pages = <<>> THEN 0
    ELSE (IF Head(pages).fail = "none" THEN Head(pages).len ELSE 0)
         + ExtractableChars(Tail(pages))

ProcReturnedText ==
    /\ proc.pc = "returned"
    /\ ExtractableChars(proc.file.pdf.pages) >= 10

ProcDecoded ==
    /\ proc.pc \in {"returned", "thrown"}
    /\ proc.validation.valid
    /\ proc.file.pdf.load = NoError

\* C11: for every document that decodes but whose pages together yield
\* fewer than 10 characters of text (markers and error placeholders not
\* counted), extraction fails with the images-only error and no attachment
\* is created.
C11_ShortTextFails ==
    (ProcDecoded /\ ExtractableChars(proc.file.pdf.pages) < 10) =>
        /\ proc.pc = "thrown"
        /\ proc.result.error = ErrImagesOnly
        /\ proc.result.attachment = Null

\* the pages of the file whose text extraction throws
FailedPages(file) ==
    {N \in DOMAIN file.pdf.pages : file.pdf.pages[N].fail # "none"}

\* the text holds at position j the marker of page N, a newline and then body
BlockAt(text, j, N, body) ==
    /\ j + 2 <= Len(text)
    /\ text[j] = PageMarker(N)
    /\ <<text[j + 1]>> = NL
    /\ text[j + 2] = body

\* C12: when the text extraction of a page throws, the block
\* '--- Page N ---' plus '[Error extracting text from this page]' stands
\* for that page, every later page is still processed in order, and the
\* extraction as a whole does not fail.
C12_PageFailureAbsorbed ==
    (ProcDecoded /\ FailedPages(proc.file) # {}) =>
        /\ proc.pc = "returned"
        /\ proc.pageNum = Len(proc.file.pdf.pages) + 1
        /\ LET text == proc.result.attachment.extractedText
               pages == proc.file.pdf.pages
           IN  \A N \in FailedPages(proc.file) :
                 \E j \in DOMAIN text :
                    /\ BlockAt(text, j, N, ErrorPlaceholder)
                    /\ \A M \in (N + 1)..Len(pages) :
                         (pages[M].fail = "none" /\ pages[M].len > 0) =>
                            \E k \in (j + 1)..Len(text) :
                               BlockAt(text, k, M,
                                       PageText(proc.file.name, M, pages[M].len))

C12_Witness ==
    /\ proc.pc = "returned"
    /\ Len(proc.file.pdf.pages) = 3
    /\ proc.file.pdf.pages[1].fail = "getPage"
    /\ proc.file.pdf.pages[2].fail = "getTextContent"
    /\ proc.file.pdf.pages[3] = [fail |-> "none", len |-> 3]
    /\ BlockAt(proc.result.attachment.extractedText, 1, 1, ErrorPlaceholder)
    /\ BlockAt(proc.result.attachment.extractedText, 6, 2, ErrorPlaceholder)
    /\ BlockAt(proc.result.attachment.extractedText, 11, 3,
               PageText(proc.file.name, 3, 3))

\* the processPDFFile call has ended with a failure of the extraction
ProcExtractionFailed ==
    /\ proc.pc = "thrown"
    /\ proc.validation.valid

\* C13: every whole-document failure of extractTextFromPDF reaches the
\* caller as one of the four kinds, and the kind matches the cause: a
\* corrupt stream gives the corrupted-file error, a password-protected
\* document the password error, too little text the images-only error, and
\* any other failure the unknown error, whatever its message contains.
C13_KindMatchesCause ==
    ProcExtractionFailed =>
        LET cause == proc.file.pdf.load
            reported == proc.result.error
        IN  IF cause \in {InvalidPDFError, EmptyFileError}
            THEN reported = ErrCorrupted
            ELSE IF cause = PasswordError
            THEN reported = ErrPassword
            ELSE IF cause = NoError
            THEN reported = ErrImagesOnly
            ELSE reported \in {ErrFailedExtract(cause), ErrUnexpected}

\* upload i settles successfully in this step, in a mounted component
UploadSucceeds(i) ==
    /\ mounted
    /\ uploads[i].pc = "extracting"
    /\ uploads'[i].pc = "returned"

\* C14: a successful upload of a document with N pages appends exactly one
\* assistant analysis message, and the message reports 'Pages: N'.
C14_AnalysisReportsPages ==
    [][\A i \in DOMAIN uploads :
        UploadSucceeds(i) =>
            /\ Len(messages') = Len(messages) + 1
            /\ SubSeq(messages', 1, Len(messages)) = messages
            /\ LET m == messages'[Len(messages')]
                   N == Len(uploads[i].file.pdf.pages)
               IN  /\ m.role = "assistant"
                   /\ m.content[3] = Lit("\n**Pages**: ")
                   /\ m.content[4] = Lit(ToString(N))
      ]_vars

\* C15: over any sequence of uploads, removals and teardown, the display
\* handle (blob URL) of an Attachment is revoked once; a further release of
\* the same Attachment performs no second revocation.
C15_RevokedOnce ==
    \A url \in DOMAIN revoked : revoked[url] = 1

\* the blob URL created by upload i (processPDFFile line 166)
CreatedUrl(i) == [scheme |-> "blob:", path |-> i]

\* C16: once the chat view has been torn down and the operations in flight
\* have settled, every display handle that was created has been released,
\* the one of an upload that completed after the teardown included.
C16_ReleasedAfterTeardown ==
    (~mounted /\ InFlightUploads = {}) =>
        \A i \in DOMAIN uploads :
            uploads[i].pc = "returned" => CreatedUrl(i) \in DOMAIN revoked

\* the conditions under which a send is to be rejected
SendToBeRejected ==
    \/ Trim(input) = <<>> /\ attachment = Null
    \/ InFlightUploads # {}
    \/ InFlightSends # {}

\* C17: handleSendMessage changes nothing (no message, input, error and
\* busy flag unchanged, no model call) whenever the trimmed input is empty
\* and there is no attachment, or an upload/extraction or a model request is
\* in flight.
C17_RejectedSendIsNoOp ==
    [][(SendToBeRejected /\ HandleSendMessage) =>
            UNCHANGED <<messages, input, error, isLoading, sends>>]_vars

\* upload i ends with a failure in this step, in a mounted component: its
\* file fails validation, or its extraction fails
UploadFails(i) ==
    /\ mounted
    /\ uploads'[i].pc = "thrown"
    /\ IF i \in DOMAIN uploads THEN uploads[i].pc = "extracting" ELSE TRUE

\* the message an upload of the file fails with
UploadError(file) ==
    IF FailsValidation(file) THEN validatePDFFile(file).error
    ELSE extractTextFromPDF(file).error

\* C18: when an upload fails (at validation or at extraction) the component
\* ends not busy with the error message stored, the attachment stored before
\* is unchanged and not released, and no message is appended.
C18_FailedUploadKeepsState ==
    [][\A i \in DOMAIN uploads' :
        UploadFails(i) =>
            /\ error' # NullStr
            /\ error' = UploadError(uploads'[i].file)
            /\ ~isLoading'
            /\ attachment' = attachment
            /\ revoked' = revoked
            /\ messages' = messages
      ]_vars

C18_Witness ==
    /\ mounted
    /\ Len(uploads) = 3
    /\ uploads[1].pc = "returned"
    /\ uploads[2].pc = "thrown" /\ FailsValidation(uploads[2].file)
    /\ uploads[3].pc = "thrown" /\ ~FailsValidation(uploads[3].file)
    /\ uploads[3].attachment # Null
    /\ attachment = uploads[3].attachment
    /\ attachment.url \notin DOMAIN revoked
    /\ error = ErrImagesOnly
    /\ Len(messages) = 1

\* the model call of send i fails in this step, in a mounted component
SendFails(i) ==
    /\ mounted
    /\ sends[i].pc \in {"primary", "fallback"}
    /\ sends'[i].pc = "thrown"

\* C19: when the model call of a send fails the component ends not busy with
\* the error stored, no assistant message is appended for that send, and the
\* conversation ends with the user message appended when the send was
\* accepted.
C19_FailedSendAppendsNothing ==
    [][\A i \in DOMAIN sends :
        SendFails(i) =>
            /\ error' = ErrUnavailable
            /\ ~isLoading'
            /\ messages' = messages
            /\ messages'[Len(messages')] =
                  [role |-> "user", content |-> sends[i].userMessage]
      ]_vars

\* C20: with an error stored, a new user action (selecting a file, an
\* accepted send, removing the attachment) clears the stored error before it
\* proceeds; a selection that fails at once stores its own error.
C20_UserActionClearsError ==
    [][error # NullStr =>
        /\ RemoveAttachment => error' = NullStr
        /\ (HandleSendMessage /\ messages' # messages) => error' = NullStr
        /\ \A file \in SpecFiles :
              SelectFile(file) =>
                 error' = (IF FailsValidation(file)
                           THEN validatePDFFile(file).error ELSE NullStr)
      ]_vars

\* C21: removing the current attachment releases it, clears the attachment
\* pointer, leaves the component idle (not busy, no error stored) from
\* whatever state it was invoked in, and leaves the conversation unchanged.
C21_RemoveReturnsToIdle ==
    [][RemoveAttachment =>
        /\ attachment.url \in DOMAIN revoked'
        /\ attachment' = Null
        /\ messages' = messages
        /\ ~isLoading'
        /\ error' = NullStr
      ]_vars

IsPrefix(s, t) == Len(s) <= Len(t) /\ SubSeq(t, 1, Len(s)) = s

\* C22: the conversation is append-only: every step leaves the message list
\* as it was or extends it at the end (so every earlier value is a prefix of
\* every later one), and every stored message has role user or assistant.
C22_AppendOnly ==
    [][/\ IsPrefix(messages, messages')
       /\ \A k \in DOMAIN messages' : messages'[k].role \in {"user", "assistant"}
      ]_vars

C22_Witness ==
    /\ Len(messages) = 3
    /\ messages[2].role = "user"
    /\ messages[3].role = "assistant"
    /\ attachment = Null
    /\ revoked # <<>>
    /\ \E i \in DOMAIN uploads : uploads[i].pc = "thrown"

(***************************************************************************)
(* pdfService.ts: getPDFStats (specification SpecStats)                    *)
(*                                                                         *)
(* Where the words of a text matter the text is a sequence of characters   *)
(* (one-character strings); Undefined stands for an absent extractedText.  *)
(***************************************************************************)
Undefined == <<"undefined">>

IsWs(c) == c \in {" ", "\n"}

\* String.prototype.split(/\s+/), computed by halves (the result does not
\* depend on where the text is cut): the token that ends the left half and
\* the token that starts the right half are one token, and when both are
\* empty the cut lies inside one run of whitespace
RECURSIVE SplitWs(_)
SplitWs(text) ==
    IF text = <<>> THEN << <<>> >>
    ELSE IF Len(text) = 1
    THEN (IF IsWs(text[1]) THEN << <<>>, <<>> >> ELSE <<text>>)
    ELSE LET mid == Len(text) \div 2
             left == SplitWs(SubSeq(text, 1, mid))
             right == SplitWs(SubSeq(text, mid + 1, Len(text)))
             front == SubSeq(left, 1, Len(left) - 1)
             joined == left[Len(left)] \o right[1]
         IN  IF joined = <<>> /\ Len(left) > 1 /\ Len(right) > 1
             THEN front \o Tail(right)
             ELSE front \o <<joined>> \o Tail(right)

\* Array.prototype.filter(word => word.length > 0)
NonEmptyWords(tokens) == SelectSeq(tokens, LAMBDA word : Len(word) > 0)

WORDS_PER_MINUTE == 200

\* Math.ceil(n / d) for n >= 0, d > 0
Ceil(n, d) == IF n % d = 0 THEN n \div d ELSE (n \div d) + 1

\* lines 206-223
getPDFStats_Floor(att) ==
    LET text == IF att.extractedText = Undefined THEN <<>> ELSE att.extractedText
        words == NonEmptyWords(SplitWs(text))
    IN  [wordCount |-> Len(words),
         characterCount |-> Len(text),
         readingTime |-> Len(words) \div WORDS_PER_MINUTE,
         pages |-> statsPages(att)]

getPDFStats(att) ==
    LET text == IF att.extractedText = Undefined THEN <<>> ELSE att.extractedText
        words == NonEmptyWords(SplitWs(text))
    IN  [wordCount |-> Len(words),
         characterCount |-> Len(text),
         readingTime |-> Ceil(Len(words), WORDS_PER_MINUTE),
         pages |-> statsPages(att)]

\* the Chat component as constructed (it takes no part in a service call)
ChatConstructed ==
    /\ messages = <<>>
    /\ input = <<>>
    /\ isLoading = FALSE
    /\ attachment = Null
    /\ uploadProgress = 0
    /\ processingStatus = <<>>
    /\ error = NullStr
    /\ mounted = TRUE
    /\ uploads = <<>>
    /\ sends = <<>>
    /\ revoked = <<>>

MaxStatsLen == 5

StatsChars == {"a", " ", "\n"}

\* n words, each followed by a space
Words(n) == [k \in 1..(2 * n) |-> IF k % 2 = 1 THEN "a" ELSE " "]

StatsWordCounts == {199, 200, 201, 400, 401}

StatsTexts ==
    UNION {[1..n -> StatsChars] : n \in 0..MaxStatsLen}
    \cup {Words(n) : n \in StatsWordCounts}
    \cup {Undefined}

InitStats ==
    /\ ChatConstructed
    /\ proc \in {[pc |-> "getPDFStats",
                  attachment |-> [extractedText |-> text,
                                  metadata |-> [fields |-> MetadataFields]]] :
                 text \in StatsTexts}

StatsCall ==
    /\ proc.pc = "getPDFStats"
    /\ proc' = [pc |-> "stats", attachment |-> proc.attachment,
                result |-> getPDFStats(proc.attachment)]
    /\ UNCHANGED chatVars

NextStats == StatsCall

SpecStats == InitStats /\ [][NextStats]_vars

\* the positions of a text where a word starts
WordStarts(text) ==
    {k \in DOMAIN text :
        ~IsWs(text[k]) /\ (IF k = 1 THEN TRUE ELSE IsWs(text[k - 1]))}

\* C23: getPDFStats returns as wordCount the number of non-empty
\* whitespace-delimited tokens of the text and as readingTime the ceiling of
\* wordCount / 200; the empty text has wordCount 0.
C23_Stats ==
    proc.pc = "stats" =>
        LET given == proc.attachment.extractedText
            text == IF given = Undefined THEN <<>> ELSE given
            stats == proc.result
        IN  /\ stats.wordCount = Cardinality(WordStarts(text))
            /\ stats.readingTime * 200 >= stats.wordCount
            /\ (stats.readingTime - 1) * 200 < stats.wordCount
            /\ text = <<>> => stats.wordCount = 0

C23_Witness ==
    /\ proc.pc = "stats"
    /\ proc.result.wordCount = 201
    /\ proc.result.readingTime = 2

(***************************************************************************)
(* pdfService.ts: extractKeyInfo (specification SpecKeyInfo)               *)
(*                                                                         *)
(* The text is a sequence of tokens; a token is [s, kind]: its characters  *)
(* and which of the four patterns matches it ("none": no pattern does).    *)
(* What a pattern matches inside the text is the regular expression        *)
(* engine's work; the model takes its result, the matched strings in the   *)
(* order they occur.                                                       *)
(***************************************************************************)
NoMatch == <<"null">>

\* String.prototype.match with a global pattern: every match in order, or
\* null when there is none
Match(text, kind) ==
    LET found == SelectSeq(text, LAMBDA token : token.kind = kind) IN
    IF found = <<>> THEN NoMatch ELSE [k \in DOMAIN found |-> found[k].s]

\* [...new Set(values)]: the values in insertion order, each once
RECURSIVE SetSpread(_, _)
SetSpread(values, seen) ==
    IF values = <<>> THEN seen
    ELSE IF \E k \in DOMAIN seen : seen[k] = Head(values)
    THEN SetSpread(Tail(values), seen)
    ELSE SetSpread(Tail(values), Append(seen, Head(values)))

\* [...new Set(text.match(pattern) || [])]
Distinct(text, kind) ==
    LET matches == Match(text, kind) IN
    SetSpread(IF matches = NoMatch THEN <<>> ELSE matches, <<>>)

\* lines 226-243
extractKeyInfo_First3(text) ==
    [emails |-> SubSeq(Distinct(text, "email"), 1,
                       Min(3, Len(Distinct(text, "email")))),
     phones |-> Distinct(text, "phone"),
     urls   |-> Distinct(text, "url"),
     dates  |-> Distinct(text, "date")]

extractKeyInfo(text) ==
    [emails |-> Distinct(text, "email"),
     phones |-> Distinct(text, "phone"),
     urls   |-> Distinct(text, "url"),
     dates  |-> Distinct(text, "date")]

MaxKeyLen == 4

KeyTokens ==
    {[s |-> "a@b.co", kind |-> "email"], [s |-> "c@d.io", kind |-> "email"],
     [s |-> "e@f.org", kind |-> "email"], [s |-> "g@h.net", kind |-> "email"],
     [s |-> "555-123-4567", kind |-> "phone"],
     [s |-> "https://x.y/z", kind |-> "url"],
     [s |-> "1/2/2024", kind |-> "date"],
     [s |-> "hello", kind |-> "none"]}

KeyTexts == UNION {[1..n -> KeyTokens] : n \in 0..MaxKeyLen}

InitKeyInfo ==
    /\ ChatConstructed
    /\ proc \in {[pc |-> "extractKeyInfo", text |-> text] : text \in KeyTexts}

KeyInfoCall ==
    /\ proc.pc = "extractKeyInfo"
    /\ proc' = [pc |-> "keyInfo", text |-> proc.text,
                result |-> extractKeyInfo(proc.text)]
    /\ UNCHANGED chatVars

NextKeyInfo == KeyInfoCall

SpecKeyInfo == InitKeyInfo /\ [][NextKeyInfo]_vars

\* the strings of the text that the pattern of a kind matches, with the
\* position of each occurrence
Occurrences(text, kind) == {k \in DOMAIN text : text[k].kind = kind}

FirstOccurrence(text, kind, s) ==
    CHOOSE k \in Occurrences(text, kind) :
        /\ text[k].s = s
        /\ \A j \in Occurrences(text, kind) : text[j].s = s => k <= j

\* a list holds every matched string of a kind once, by first occurrence
DistinctInOrder(list, text, kind) ==
    /\ \A i, j \in DOMAIN list : list[i] = list[j] => i = j
    /\ {list[i] : i \in DOMAIN list} = {text[k].s : k \in Occurrences(text, kind)}
    /\ \A i, j \in DOMAIN list :
          i < j => FirstOccurrence(text, kind, list[i])
                      < FirstOccurrence(text, kind, list[j])

\* C24: each of the four lists of extractKeyInfo holds every matched string
\* at most once, in order of first occurrence, and holds every distinct
\* match (none is cut off).
C24_KeyInfoDistinct ==
    proc.pc = "keyInfo" =>
        /\ DistinctInOrder(proc.result.emails, proc.text, "email")
        /\ DistinctInOrder(proc.result.phones, proc.text, "phone")
        /\ DistinctInOrder(proc.result.urls, proc.text, "url")
        /\ DistinctInOrder(proc.result.dates, proc.text, "date")

C24_Witness ==
    /\ proc.pc = "keyInfo"
    /\ Len(proc.text) = 4
    /\ proc.text[1].s = "c@d.io"
    /\ proc.text[2].s = "a@b.co"
    /\ proc.text[3].s = "c@d.io"
    /\ proc.text[4].s = "1/2/2024"
    /\ proc.result.emails = <<"c@d.io", "a@b.co">>
    /\ proc.result.dates = <<"1/2/2024">>
    /\ proc.result.urls = <<>>

(***************************************************************************)
(* utils: parseMarkdown (specification SpecMarkdown)                       *)
(*                                                                         *)
(* The text and the html are sequences of tokens [s, has]: the characters  *)
(* of the token, and which of the tags '<p>', '<h1>', '<h2>', '<h3>' its   *)
(* characters contain.  The texts drawn hold heading markers, words,       *)
(* newlines and a literal '<p>'; they hold no '*', '`', '-', digit or '>'  *)
(* at a line start, so the rules for bold, italic, code, lists and         *)
(* blockquotes (lines 180-199) leave them as they are.                     *)
(***************************************************************************)
Tok(s) == [s |-> s, has |-> {}]

NLTok == Tok("\n")

HeadingMarker(level) ==
    IF level = 3 THEN Tok("### ") ELSE IF level = 2 THEN Tok("## ") ELSE Tok("# ")

\* the opening tags carry a class attribute (lines 175-177)
HeadingOpen(level) ==
    IF level = 3
    THEN Tok("<h3 class=\"text-lg font-serif font-bold mt-6 mb-3 text-vintage-title\">")
    ELSE IF level = 2
    THEN Tok("<h2 class=\"text-xl font-serif font-bold mt-8 mb-4 text-vintage-title\">")
    ELSE Tok("<h1 class=\"text-2xl font-serif font-bold mt-8 mb-4 text-vintage-title\">")

HeadingClose(level) ==
    IF level = 3 THEN Tok("</h3>") ELSE IF level = 2 THEN Tok("</h2>") ELSE Tok("</h1>")

ParagraphBreak == Tok("</p><p class=\"mb-4\">")

LineBreak == Tok("<br>")

ParagraphOpen == Tok("<p class=\"mb-4\">")

ParagraphClose == Tok("</p>")

\* the tokens up to the end of the line
RECURSIVE RestOfLine(_)
RestOfLine(text) ==
    IF text = <<>> \/ Head(text) = NLTok THEN <<>>
    ELSE <<Head(text)>> \o RestOfLine(Tail(text))

\* lines 175-177, one replace: /^#{level} (.*$)/gim
RECURSIVE ReplaceHeadings(_, _, _)
ReplaceHeadings(text, level, atLineStart) ==
    IF text = <<>> THEN <<>>
    ELSE IF atLineStart /\ Head(text) = HeadingMarker(level)
    THEN LET line == RestOfLine(Tail(text)) IN
         <<HeadingOpen(level)>> \o line \o <<HeadingClose(level)>>
         \o ReplaceHeadings(SubSeq(text, Len(line) + 2, Len(text)), level, FALSE)
    ELSE <<Head(text)>> \o ReplaceHeadings(Tail(text), level, Head(text) = NLTok)

\* line 202: replace(/\n\n/g, '</p><p class="mb-4">')
RECURSIVE ReplaceParagraphBreaks(_)
ReplaceParagraphBreaks(html) ==
    IF html = <<>> THEN <<>>
    ELSE IF Len(html) >= 2 /\ html[1] = NLTok /\ html[2] = NLTok
    THEN <<ParagraphBreak>> \o ReplaceParagraphBreaks(SubSeq(html, 3, Len(html)))
    ELSE <<Head(html)>> \o ReplaceParagraphBreaks(Tail(html))

\* line 203: replace(/\n/g, '<br>')
ReplaceLineBreaks(html) ==
    [k \in DOMAIN html |-> IF html[k] = NLTok THEN LineBreak ELSE html[k]]

\* String.prototype.includes for one of the four tags
Includes(html, tag) == \E k \in DOMAIN html : tag \in html[k].has

\* lines 171-211
parseMarkdown(text) ==
    LET headings == ReplaceHeadings(ReplaceHeadings(ReplaceHeadings(
                        text, 3, TRUE), 2, TRUE), 1, TRUE)
        html == ReplaceLineBreaks(ReplaceParagraphBreaks(headings))
    IN  IF ~Includes(html, "<p>") /\ ~Includes(html, "<h1>")
           /\ ~Includes(html, "<h2>") /\ ~Includes(html, "<h3>")
        THEN <<ParagraphOpen>> \o html \o <<ParagraphClose>>
        ELSE html

MaxMarkdownLen == 4

MarkdownTokens ==
    {HeadingMarker(1), HeadingMarker(2), HeadingMarker(3), Tok("word"), NLTok,
     [s |-> "<p>", has |-> {"<p>"}]}

MarkdownTexts == UNION {[1..n -> MarkdownTokens] : n \in 0..MaxMarkdownLen}

InitMarkdown ==
    /\ ChatConstructed
    /\ proc \in {[pc |-> "parseMarkdown", text |-> text] : text \in MarkdownTexts}

MarkdownCall ==
    /\ proc.pc = "parseMarkdown"
    /\ proc' = [pc |-> "html", text |-> proc.text,
                result |-> parseMarkdown(proc.text)]
    /\ UNCHANGED chatVars

NextMarkdown == MarkdownCall

SpecMarkdown == InitMarkdown /\ [][NextMarkdown]_vars

\* the text has a heading line: a line that starts with '# ', '## ' or '### '
HasHeadingLine(text) ==
    \E k \in DOMAIN text :
        /\ text[k] \in {HeadingMarker(1), HeadingMarker(2), HeadingMarker(3)}
        /\ IF k = 1 THEN TRUE ELSE text[k - 1] = NLTok

\* the text has a double newline
HasDoubleNewline(text) ==
    \E k \in DOMAIN text : k > 1 /\ text[k - 1] = NLTok /\ text[k] = NLTok

\* the output is wrapped in one outer paragraph
Wrapped(html) ==
    /\ html # <<>>
    /\ html[1] = ParagraphOpen
    /\ html[Len(html)] = ParagraphClose

\* C25: parseMarkdown wraps its whole output in one paragraph exactly when
\* the rules before produced no paragraph and no heading block: a text with
\* a heading line or a double newline gets no outer paragraph.
C25_WrapOnlyWithoutBlocks ==
    proc.pc = "html" =>
        (Wrapped(proc.result)
            <=> ~(HasHeadingLine(proc.text) \/ HasDoubleNewline(proc.text)))

\* an upload or a send settles in this step, in a mounted component
OperationSettles ==
    /\ mounted
    /\ \/ \E i \in DOMAIN uploads : i \in InFlightUploads /\ i \notin InFlightUploads'
       \/ \E i \in DOMAIN sends : i \in InFlightSends /\ i \notin InFlightSends'

\* an upload or a send ends with a failure in this step
OperationFails ==
    \/ \E i \in DOMAIN uploads : uploads[i].pc = "extracting" /\ uploads'[i].pc = "thrown"
    \/ \E i \in DOMAIN sends : SendFails(i)

\* C26: an upload or send that finishes, whether its collaborator succeeded
\* or failed, leaves the component not busy, with the error stored when it
\* failed; and the component is never busy with nothing in flight.  (An
\* operation in flight finishes as soon as its collaborator responds.)
C26_NeverStuckBusy ==
    [][/\ OperationSettles => ~isLoading'
       /\ (OperationSettles /\ OperationFails) => error' # NullStr
       /\ (mounted' /\ InFlightUploads' = {} /\ InFlightSends' = {}) => ~isLoading'
      ]_vars

C26_Witness ==
    /\ mounted
    /\ ~isLoading
    /\ InFlightUploads = {} /\ InFlightSends = {}
    /\ \E i \in DOMAIN uploads : uploads[i].pc = "thrown" /\ uploads[i].extractCalls = 1
    /\ \E i \in DOMAIN sends : sends[i].pc = "thrown"
    /\ \E i \in DOMAIN uploads : uploads[i].pc = "returned"

\* C27: in extractTextFromPDF every page that was obtained from the document
\* has had its resources released (page.cleanup) before the next page is
\* processed, when its text was captured and when extracting its text failed.
C27_ObtainedPagesCleaned ==
    proc.pc \in {"pages", "returned", "thrown"} =>
        \A N \in proc.obtained : N < proc.pageNum => N \in proc.cleaned

\* a send is accepted in this step and makes a model call
SendCalls == Len(sends') = Len(sends) + 1

\* C28: on an accepted send the history handed to chatWithContext is the
\* conversation as it was before the new user message was appended, so the
\* outbound request holds the system message, at most the last 10 messages
\* of that conversation, and the new user turn once, as its last entry.
C28_HistoryIsPriorConversation ==
    [][SendCalls =>
        LET call == sends'[Len(sends')]
            request == call.requests[1]
            turn == UserTurn(request).content
            prior == [k \in DOMAIN messages |->
                        [role |-> messages[k].role, content |-> messages[k].content]]
        IN  /\ messages' = Append(messages,
                               [role |-> "user", content |-> call.userMessage])
            /\ call.conversationHistory = prior
            /\ request.messages[1] = SystemMessage
            /\ HistoryPart(request) = LastN(prior, 10)
            /\ Len(request.messages) = Min(Len(messages), 10) + 2
            /\ UserTurn(request).role = "user"
            /\ SubSeq(turn, Len(turn) - Len(call.userMessage) + 1, Len(turn))
                  = call.userMessage
      ]_vars

C28_Witness ==
    /\ Len(sends) = 1
    /\ Len(sends[1].conversationHistory) = MaxHistory + 1
    /\ Len(messages) = MaxHistory + 2
    /\ messages[Len(messages)] = [role |-> "user", content |-> <<LetterA>>]
    /\ Len(sends[1].requests[1].messages) = 12

\* C29: the progress timer started by an upload is stopped when that upload
\* ends, on success and on failure: once no upload is in flight,
\* uploadProgress is 0 and no timer is left to change it.
C29_TimerStopped ==
    /\ \A i \in DOMAIN uploads : uploads[i].pc # "extracting" => ~uploads[i].timer
    /\ (mounted /\ InFlightUploads = {}) => uploadProgress = 0

(***************************************************************************)
(* Specification SpecProgress: the Chat component through one upload, with *)
(* the progress timer followed for as many ticks as ProgressCap allows     *)
(***************************************************************************)
ProgressCap == 101

NextProgress ==
    \/ \E file \in SpecFiles : uploads = <<>> /\ SelectFile(file)
    \/ \E i \in DOMAIN uploads : ExtractionComplete(i)
    \/ \E i \in DOMAIN uploads : uploadProgress < ProgressCap /\ Tick(i)
    \/ Unmount

SpecProgress == Init /\ [][NextProgress]_vars

\* C30: uploadProgress stays within 0..100 in every reachable state, however
\* many timer ticks occur while an extraction is in flight.
C30_ProgressWithinBounds ==
    uploadProgress \in 0..100

====
